---- MODULE Spec2Model ----
(***************************************************************************)
(* Model of devtools_testutils/proxy_testcase.py: the recorded_by_proxy    *)
(* decorator, the session lifecycle client (start/stop_record_or_playback),*)
(* the module-level recording_ids registry and transform_request.          *)
(*                                                                         *)
(* Each process of Procs is a thread of the test runner that executes      *)
(* decorated tests.  The steps of record_wrap are the statements that read *)
(* or write state shared between threads (RequestsTransport.send, the      *)
(* recording_ids registry, the proxy).  The interpreter is Python 3, so    *)
(* the Python 2 skip of line 159 never fires.                              *)
(***************************************************************************)
EXTENDS Integers, Sequences, FiniteSets, TLC

\* ------------------------------------------------------------- bounds ----
MaxCalls == 2                    \* decorated calls begun in one behaviour
MaxPathLen == 4                  \* pieces in the path part of PYTEST_CURRENT_TEST

Procs == {1, 2}                  \* runner threads
TestIds == {"t1", "t2"}          \* values get_test_id can return
Outputs == {"o1", "o2"}          \* values a test body can return
Responses == {"r1", "r2"}        \* HTTP responses carried by ResourceNotFoundError
Bodies == {"", "{\"k\": \"v\"}", "oops"}   \* texts of a /playback/start response

Absent == 0                      \* Python None for a recording id
EmptyVars == {}                  \* the empty variables dictionary
Original == << >>                \* RequestsTransport.send as the class defines it

\* ------------------------------------------------ exceptions, outcomes ----
Exc(kind, origin, message, response) ==
    [kind |-> kind, origin |-> origin, message |-> message, response |-> response]
NoExc == Exc("None", "None", "None", "None")
Ret(v) == [t |-> "ret", v |-> v, e |-> NoExc]
Raise(e) == [t |-> "exc", v |-> "None", e |-> e]
NoOutcome == [t |-> "none", v |-> "None", e |-> NoExc]

BodyOrigin(i) == IF i = 1 THEN "body1" ELSE IF i = 2 THEN "body2" ELSE "body0"
\* TypeError raised by the call itself: the function takes no `variables`
TypeSigErr == Exc("TypeError", "call1", "unexpected keyword argument 'variables'", "None")
\* exceptions raised inside the test body on invocation i
TypeBodyErr(i) == Exc("TypeError", BodyOrigin(i), "unsupported operand", "None")
OtherErr(i) == Exc("RuntimeError", BodyOrigin(i), "boom", "None")
NotFoundErr(i, r) ==
    Exc("ResourceNotFoundError", BodyOrigin(i), "Operation returned an invalid status", r)

\* ContentDecodePolicy.deserialize_from_http_generics(error.response)
Deserialize(r) == IF r = "r1" THEN [Message |-> "not found"] ELSE [code |-> "404"]

\* lines 199-202: the except clause of the second try
Rewrap(e) ==
    IF "Message" \in DOMAIN Deserialize(e.response)
    THEN Exc("ResourceNotFoundError", "record_wrap", Deserialize(e.response).Message, e.response)
    ELSE Exc("KeyError", "record_wrap", "Message", "None")

\* ------------------------------------------------ environment inputs ----
\* mode: what the live/playback oracle of .helpers answers in this process;
\* runner: whether the test runner executes tests one at a time ("serial")
\* or in worker threads that share RequestsTransport ("threads")
VARIABLES mode, runner
is_live == mode # "playback"
is_live_and_not_recording == mode = "live"

\* what one invocation of a test body can do; with a threaded runner the
\* bodies are drawn from ThreadOutcomes only
ThreadOutcomes(i) == {Ret("o1"), Raise(OtherErr(i))}
BodyOutcomes(i) ==
    IF runner = "threads"
    THEN ThreadOutcomes(i)
    ELSE {Ret(o) : o \in Outputs}
           \cup {Raise(TypeBodyErr(i)), Raise(OtherErr(i))}
           \cup {Raise(NotFoundErr(i, r)) : r \in Responses}

\* whether test_func takes a `variables` argument, and the texts the proxy
\* can answer /playback/start with; a threaded runner draws from fewer
Signatures == IF runner = "threads" THEN {TRUE} ELSE BOOLEAN
StartBodies == IF runner = "threads" THEN {""} ELSE Bodies

\* test_func(*args, variables=variables, **trimmed_kwargs)
InvokeWithVariables(acc) == IF acc THEN BodyOutcomes(1) ELSE {Raise(TypeSigErr)}
\* test_func(*args, **trimmed_kwargs)
InvokeWithout(i) == BodyOutcomes(i)

\* ------------------------------------------------------------- state ----
VARIABLES send, recording_ids, nextId, calls, wire, stopCount, lastStart, lastRestorer,
          pc, accepts, test_id, recording_id, variables, original_transport_func,
          test_output, pending, result, invs, events, stopReq, response

\* setting_value: the value of PYTEST_CURRENT_TEST; os_name: the platform
\* ("posix" or "nt") that fixes os.sep and os.path; returned: what
\* get_test_id() returned for them.  A string is the sequence of its pieces:
\* "a" and "test" are pieces of names, the others single characters.
VARIABLES setting_value, os_name, returned
environ == <<setting_value, os_name, returned>>
NotCalled == <<"<not called>">>

globals == <<mode, runner, send, recording_ids, nextId, calls, stopCount, lastStart, lastRestorer>>
locals == <<pc, accepts, test_id, recording_id, variables, original_transport_func,
            test_output, pending, result, invs, events, stopReq, response>>
vars == <<globals, wire, locals, environ>>

NoRequest == [url |-> "None", file |-> "None", id |-> Absent, save |-> "None",
              ctype |-> "None", hasBody |-> FALSE, body |-> "None"]
\* the proxy's answer to a start request as start_record_or_playback saw it:
\* rid = Absent is an answer without the x-recording-id header, text is
\* result.text; NoResponse before any answer
NoResponse == [rid |-> Absent, text |-> "None"]
NoUpstream == <<"None">>
NoOutbound == [url |-> << >>, upstream |-> NoUpstream, id |-> Absent, mode |-> "None"]
\* wire: the request that has just reached the original send, with the request
\* the test body handed to RequestsTransport.send (orig), the number of
\* combined_call closures it went through (hooks) and the sender's session
NoWire == [url |-> << >>, upstream |-> NoUpstream, id |-> Absent, mode |-> "None",
           session |-> Absent, sender |-> 0, orig |-> NoOutbound, hooks |-> 0]

InitCommon ==
    /\ mode \in {"record", "live", "playback"}
    /\ send = Original
    /\ recording_ids = [t \in TestIds |-> Absent]
    /\ nextId = 0
    /\ calls = 0
    /\ wire = NoWire
    /\ stopCount = [i \in 1..MaxCalls |-> 0]
    /\ lastStart = [t \in TestIds |-> Absent]
    /\ lastRestorer = 0
    /\ pc = [p \in Procs |-> "idle"]
    /\ accepts = [p \in Procs |-> FALSE]
    /\ test_id = [p \in Procs |-> "None"]
    /\ recording_id = [p \in Procs |-> Absent]
    /\ variables = [p \in Procs |-> EmptyVars]
    /\ original_transport_func = [p \in Procs |-> Original]
    /\ test_output = [p \in Procs |-> "None"]
    /\ pending = [p \in Procs |-> NoOutcome]
    /\ result = [p \in Procs |-> NoOutcome]
    /\ invs = [p \in Procs |-> << >>]
    /\ events = [p \in Procs |-> << >>]
    /\ stopReq = [p \in Procs |-> NoRequest]
    /\ response = [p \in Procs |-> NoResponse]

Append1(f, p, x) == [f EXCEPT ![p] = Append(@, x)]

\* ------------------------------------------- session lifecycle client ----
RECORDING_STOP_URL == "/record/stop"
PLAYBACK_STOP_URL == "/playback/stop"

\* result.json() on the text of the /playback/start response
JsonValid(text) == text = "{\"k\": \"v\"}"
Json(text) == IF text = "{\"k\": \"v\"}" THEN {<<"k", "v">>} ELSE EmptyVars

StartOk(rid, vs) == [ok |-> TRUE, rid |-> rid, vars |-> vs, e |-> NoExc]
StartErr(e) == [ok |-> FALSE, rid |-> Absent, vars |-> EmptyVars, e |-> e]

MalformedJsonError ==
    Exc("ValueError", "start",
        "The response body returned from starting playback did not contain valid JSON", "None")
MissingRecordingError == Exc("ValueError", "start", "No recording file found", "None")

\* headers.get("x-recording-id") in place of headers["x-recording-id"]
StartResponseWithoutIdCheck(live, rid, text) ==
    IF live
    THEN IF rid = Absent
         THEN StartErr(Exc("KeyError", "start", "x-recording-id", "None"))
         ELSE StartOk(rid, EmptyVars)
    ELSE IF text # ""
         THEN IF JsonValid(text) THEN StartOk(rid, Json(text)) ELSE StartErr(MalformedJsonError)
         ELSE StartOk(rid, EmptyVars)
\* the JSON error swallowed instead of re-raised
StartResponseIgnoringBadJson(live, rid, text) ==
    IF live
    THEN IF rid = Absent
         THEN StartErr(Exc("KeyError", "start", "x-recording-id", "None"))
         ELSE StartOk(rid, EmptyVars)
    ELSE IF rid = Absent
         THEN StartErr(MissingRecordingError)
         ELSE IF text # "" /\ JsonValid(text) THEN StartOk(rid, Json(text))
              ELSE StartOk(rid, EmptyVars)
\* lines 83-106: what start_record_or_playback makes of the proxy's response;
\* rid = Absent stands for a response without the x-recording-id header
StartResponse(live, rid, text) ==
    IF live
    THEN IF rid = Absent
         THEN StartErr(Exc("KeyError", "start", "x-recording-id", "None"))
         ELSE StartOk(rid, EmptyVars)
    ELSE IF rid = Absent
         THEN StartErr(MissingRecordingError)
         ELSE IF text # ""
              THEN IF JsonValid(text)
                   THEN StartOk(rid, Json(text))
                   ELSE StartErr(MalformedJsonError)
              ELSE StartOk(rid, EmptyVars)

RegistryNotWritten(reg, t, rid) == reg
\* every entry set instead of the one of test_id
RegistryOverwritten(reg, t, rid) == [x \in DOMAIN reg |-> rid]
\* line 109
RegistryAfterStart(reg, t, rid) == [reg EXCEPT ![t] = rid]

StopRequestWithoutOutput(live, t, rid, out) ==
    IF live
    THEN [url |-> RECORDING_STOP_URL, file |-> t, id |-> rid, save |-> "true",
          ctype |-> "application/json", hasBody |-> FALSE, body |-> "None"]
    ELSE [url |-> PLAYBACK_STOP_URL, file |-> t, id |-> rid, save |-> "None",
          ctype |-> "None", hasBody |-> FALSE, body |-> "None"]
\* the recording id looked up in the registry instead of taken from the caller
StopRequestFromRegistry(live, t, rid, out) ==
    IF live
    THEN [url |-> RECORDING_STOP_URL, file |-> t, id |-> recording_ids[t], save |-> "true",
          ctype |-> "application/json", hasBody |-> TRUE, body |-> out]
    ELSE [url |-> PLAYBACK_STOP_URL, file |-> t, id |-> recording_ids[t], save |-> "None",
          ctype |-> "None", hasBody |-> FALSE, body |-> "None"]
\* lines 113-130: the request stop_record_or_playback posts
StopRequest(live, t, rid, out) ==
    IF live
    THEN [url |-> RECORDING_STOP_URL, file |-> t, id |-> rid, save |-> "true",
          ctype |-> "application/json", hasBody |-> TRUE, body |-> out]
    ELSE [url |-> PLAYBACK_STOP_URL, file |-> t, id |-> rid, save |-> "None",
          ctype |-> "None", hasBody |-> FALSE, body |-> "None"]

\* ------------------------------------------------ request redirection ----
\* A URL is the sequence of its lexical pieces: scheme, "://", network
\* location, then path segments and, after "?" and "#", the pieces of the
\* query and of the fragment.
get_proxy_netloc == [scheme |-> "https", netloc |-> "localhost:5001"]

FirstIndex(seq, tok) ==
    IF \E i \in DOMAIN seq : seq[i] = tok
    THEN CHOOSE i \in DOMAIN seq : seq[i] = tok /\ \A j \in 1..(i - 1) : seq[j] # tok
    ELSE 0
Before(seq, tok) == IF FirstIndex(seq, tok) = 0 THEN seq ELSE SubSeq(seq, 1, FirstIndex(seq, tok) - 1)
After(seq, tok) ==
    IF FirstIndex(seq, tok) = 0 THEN << >> ELSE SubSeq(seq, FirstIndex(seq, tok) + 1, Len(seq))

\* url_parse.urlparse(url): the fragment is split off at the first "#", then
\* the query at the first "?"
urlparse(url) ==
    LET tail == SubSeq(url, 4, Len(url))
    IN [scheme |-> url[1], netloc |-> url[3],
        path |-> Before(Before(tail, "#"), "?"),
        query |-> After(Before(tail, "#"), "?"),
        fragment |-> After(tail, "#")]
\* ParseResult.geturl(): "?" and "#" are written only before a non-empty part
geturl(parsed) ==
    <<parsed.scheme, "://", parsed.netloc>> \o parsed.path
      \o (IF parsed.query # << >> THEN <<"?">> \o parsed.query ELSE << >>)
      \o (IF parsed.fragment # << >> THEN <<"#">> \o parsed.fragment ELSE << >>)

Requests ==
    {[url |-> u, upstream |-> NoUpstream, id |-> Absent, mode |-> "None"] :
       u \in {<<"https", "://", "service.example", "/api">>,
              <<"http", "://", "other.example:8080", "/v1", "?", "x=1">>,
              <<"https", "://", "service.example", "/api", "?">>,
              <<"https", "://", "service.example", "/api", "?", "x=1", "#">>}}

\* the header is overwritten on every call
transform_request_overwriting(request, rid, live) ==
    [request EXCEPT
       !.upstream = <<urlparse(request.url).scheme, "://", urlparse(request.url).netloc>>,
       !.id = rid,
       !.mode = IF live THEN "record" ELSE "playback",
       !.url = geturl([urlparse(request.url) EXCEPT
                         !.scheme = get_proxy_netloc.scheme,
                         !.netloc = get_proxy_netloc.netloc])]
\* lines 138-148
transform_request(request, rid, live) ==
    [request EXCEPT
       !.upstream = IF @ = NoUpstream
                    THEN <<urlparse(request.url).scheme, "://", urlparse(request.url).netloc>>
                    ELSE @,
       !.id = rid,
       !.mode = IF live THEN "record" ELSE "playback",
       !.url = geturl([urlparse(request.url) EXCEPT
                         !.scheme = get_proxy_netloc.scheme,
                         !.netloc = get_proxy_netloc.netloc])]

\* the saved function assigned back instead of the closure
NotWrapped(rid, original) == original
\* RequestsTransport.send is a chain of combined_call closures around the
\* original send; a closure is named by the recording_id it captured and
\* calls the function that was saved as original_transport_func (lines 180-182).
combined_call(rid, original) == <<rid>> \o original

RECURSIVE CallSend(_, _, _)
CallSend(chain, request, live) ==
    IF chain = Original
    THEN request
    ELSE CallSend(Tail(chain), transform_request(request, Head(chain), live), live)

RestoredToClassSend(saved) == Original
\* line 204
RestoredSend(saved) == saved

\* what a test body hands to RequestsTransport.send: a new request, or, on a
\* retry by the pipeline, the request object an earlier send of this session
\* already transformed
\* (a threaded runner draws from ThreadRequests only)
ThreadRequests ==
    {[url |-> <<"https", "://", "service.example", "/api">>,
      upstream |-> NoUpstream, id |-> Absent, mode |-> "None"]}
Outbound(rid, live) ==
    IF runner = "threads" THEN ThreadRequests
    ELSE Requests \cup (IF rid = Absent THEN {}
                        ELSE {transform_request(r, rid, live) : r \in Requests})

\* -------------------------------------------------------- get_test_id ----
PathPieces == {"a", "test", "/", "\\", ":", "."}
RECURSIVE SeqsUpTo(_, _)
SeqsUpTo(S, n) ==
    IF n = 0 THEN {<< >>}
    ELSE SeqsUpTo(S, n - 1) \cup {Append(q, x) : q \in SeqsUpTo(S, n - 1), x \in S}

\* PYTEST_CURRENT_TEST is "<path>::<test name>" with an optional " (<phase>)"
Settings ==
    {path \o <<":", ":">> \o name \o phase :
       path \in SeqsUpTo(PathPieces, MaxPathLen),
       name \in {<<"test">>, <<"a">>},
       phase \in {<< >>, <<" ", "a">>}}
\* ntpath.normpath treats roots and drives differently from one release to the
\* next; for "nt" only values without a root or a drive are drawn
Rootless(v) ==
    /\ v[1] \notin {"/", "\\"}
    /\ ~(v[1] \in {"a", ".", ":"} /\ v[2] = ":")

RECURSIVE Split(_, _)
\* str.split(sep)
Split(str, sep) ==
    IF FirstIndex(str, sep) = 0 THEN <<str>>
    ELSE <<Before(str, sep)>> \o Split(After(str, sep), sep)
RECURSIVE Join(_, _)
\* sep.join(components)
Join(comps, sep) ==
    IF comps = << >> THEN << >>
    ELSE IF Len(comps) = 1 THEN comps[1]
    ELSE comps[1] \o <<sep>> \o Join(Tail(comps), sep)
RECURSIVE ReplaceChar(_, _, _)
\* str.replace(old, new) for single characters
ReplaceChar(str, old, new) ==
    IF str = << >> THEN << >>
    ELSE <<IF Head(str) = old THEN new ELSE Head(str)>> \o ReplaceChar(Tail(str), old, new)
RECURSIVE RemoveDoubleColons(_)
\* str.replace("::", ""): occurrences are taken from the left, without overlap
RemoveDoubleColons(str) ==
    IF Len(str) < 2 THEN str
    ELSE IF str[1] = ":" /\ str[2] = ":" THEN RemoveDoubleColons(Tail(Tail(str)))
    ELSE <<Head(str)>> \o RemoveDoubleColons(Tail(str))

RECURSIVE PosixComps(_, _, _)
\* the loop of posixpath.normpath over the components
PosixComps(comps, new_comps, initial_slashes) ==
    IF comps = << >> THEN new_comps
    ELSE LET comp == Head(comps)
         IN IF comp = << >> \/ comp = <<".">>
            THEN PosixComps(Tail(comps), new_comps, initial_slashes)
            ELSE IF \/ comp # <<".", ".">>
                    \/ (initial_slashes = 0 /\ new_comps = << >>)
                    \/ (new_comps # << >> /\ new_comps[Len(new_comps)] = <<".", ".">>)
            THEN PosixComps(Tail(comps), Append(new_comps, comp), initial_slashes)
            ELSE IF new_comps # << >>
            THEN PosixComps(Tail(comps), SubSeq(new_comps, 1, Len(new_comps) - 1), initial_slashes)
            ELSE PosixComps(Tail(comps), new_comps, initial_slashes)
StartsWith(str, prefix) == Len(str) >= Len(prefix) /\ SubSeq(str, 1, Len(prefix)) = prefix
\* posixpath.normpath
PosixNormpath(path) ==
    IF path = << >> THEN <<".">>
    ELSE LET initial_slashes ==
                 IF ~StartsWith(path, <<"/">>) THEN 0
                 ELSE IF StartsWith(path, <<"/", "/">>) /\ ~StartsWith(path, <<"/", "/", "/">>)
                      THEN 2 ELSE 1
             joined == Join(PosixComps(Split(path, "/"), << >>, initial_slashes), "/")
             path_out == (IF initial_slashes = 2 THEN <<"/", "/">>
                          ELSE IF initial_slashes = 1 THEN <<"/">> ELSE << >>) \o joined
         IN IF path_out = << >> THEN <<".">> ELSE path_out

RECURSIVE NtComps(_, _)
\* the loop of ntpath.normpath over the components of a path without prefix
NtComps(comps, kept) ==
    IF comps = << >> THEN kept
    ELSE LET comp == Head(comps)
         IN IF comp = << >> \/ comp = <<".">>
            THEN NtComps(Tail(comps), kept)
            ELSE IF comp = <<".", ".">> /\ kept # << >> /\ kept[Len(kept)] # <<".", ".">>
            THEN NtComps(Tail(comps), SubSeq(kept, 1, Len(kept) - 1))
            ELSE NtComps(Tail(comps), Append(kept, comp))
\* ntpath.normpath for a path without root or drive
NtNormpath(path) ==
    LET comps == NtComps(Split(ReplaceChar(path, "/", "\\"), "\\"), << >>)
    IN IF comps = << >> THEN <<".">> ELSE Join(comps, "\\")

\* lines 66-69: insert "recordings" after the first component that starts with "test"
InsertRecordings(path_components) ==
    LET hits == {i \in DOMAIN path_components :
                   path_components[i] # << >> /\ path_components[i][1] = "test"}
    IN IF hits = {} THEN path_components
       ELSE LET idx == CHOOSE i \in hits : \A j \in hits : i <= j
            IN SubSeq(path_components, 1, idx) \o <<<<"recordings">>>>
                 \o SubSeq(path_components, idx + 1, Len(path_components))

\* normpath kept out: the path is split as it was given
get_test_id_unnormalised(value, os) ==
    LET sep == IF os = "nt" THEN "\\" ELSE "/"
        path_to_test == Before(value, " ")
        path_components == Split(path_to_test, sep)
    IN ReplaceChar(RemoveDoubleColons(Join(InsertRecordings(path_components), sep)), "\\", "/")
\* lines 58-71
get_test_id(value, os) ==
    LET sep == IF os = "nt" THEN "\\" ELSE "/"
        path_to_test == IF os = "nt" THEN NtNormpath(Before(value, " "))
                        ELSE PosixNormpath(Before(value, " "))
        path_components == Split(path_to_test, sep)
    IN ReplaceChar(RemoveDoubleColons(Join(InsertRecordings(path_components), sep)), "\\", "/")

\* ------------------------------------------------------------ actions ----
\* a call of get_test_id()
GetTestId ==
    /\ returned = NotCalled
    /\ returned' = get_test_id(setting_value, os_name)
    /\ UNCHANGED <<setting_value, os_name>>
    /\ UNCHANGED <<globals, wire, locals>>

AlwaysIntercept(bypass) == "start"
\* lines 173-176: where record_wrap goes after trimming the keyword arguments
EntryPoint(bypass) == IF bypass THEN "pbody" ELSE "start"

\* lines 158-176: entry of record_wrap, the pass-through test, get_test_id()
Begin(p) ==
    /\ UNCHANGED environ
    /\ pc[p] = "idle"
    /\ runner = "serial" => \A q \in Procs : pc[q] = "idle"
    /\ calls < MaxCalls
    /\ calls' = calls + 1
    /\ \E a \in Signatures : accepts' = [accepts EXCEPT ![p] = a]
    /\ pc' = [pc EXCEPT ![p] = EntryPoint(is_live_and_not_recording)]
    /\ IF pc'[p] = "pbody"
       THEN UNCHANGED test_id
       ELSE \E t \in TestIds : test_id' = [test_id EXCEPT ![p] = t]
    /\ wire' = NoWire
    /\ UNCHANGED <<mode, runner, send, recording_ids, nextId, stopCount, lastStart, lastRestorer>>
    /\ UNCHANGED <<response, recording_id, variables, original_transport_func, test_output,
                   pending, result, invs, events, stopReq>>

\* line 174: return test_func(*args, **trimmed_kwargs)
PassThrough(p) ==
    /\ UNCHANGED environ
    /\ pc[p] = "pbody"
    /\ \E out \in InvokeWithout(0) :
         /\ invs' = Append1(invs, p, [vars |-> FALSE, out |-> out])
         /\ result' = [result EXCEPT ![p] = out]
    /\ events' = Append1(events, p, "invoke")
    /\ pc' = [pc EXCEPT ![p] = "done"]
    /\ wire' = NoWire
    /\ UNCHANGED globals
    /\ UNCHANGED <<response, accepts, test_id, recording_id, variables, original_transport_func,
                   test_output, pending, stopReq>>

\* line 81: git rev-parse HEAD fails
StartGitFails(p) ==
    /\ UNCHANGED environ
    /\ pc[p] = "start"
    /\ result' = [result EXCEPT ![p] = Raise(Exc("CalledProcessError", "start", "git", "None"))]
    /\ pc' = [pc EXCEPT ![p] = "done"]
    /\ wire' = NoWire
    /\ UNCHANGED globals
    /\ UNCHANGED <<response, accepts, test_id, recording_id, variables, original_transport_func,
                   test_output, pending, invs, events, stopReq>>

\* lines 86/92: requests.post raises
StartNetworkFails(p) ==
    /\ UNCHANGED environ
    /\ pc[p] = "start"
    /\ result' = [result EXCEPT ![p] = Raise(Exc("ConnectionError", "start", "post", "None"))]
    /\ events' = Append1(events, p, "start")
    /\ pc' = [pc EXCEPT ![p] = "done"]
    /\ wire' = NoWire
    /\ UNCHANGED globals
    /\ UNCHANGED <<response, accepts, test_id, recording_id, variables, original_transport_func,
                   test_output, pending, invs, stopReq>>

\* the registry written as soon as the proxy has answered, before the checks
StartRegisteringFirst(p) ==
    /\ UNCHANGED environ
    /\ pc[p] = "start"
    /\ \E hasId \in BOOLEAN, text \in (IF is_live THEN {""} ELSE StartBodies) :
         LET r == StartResponse(is_live, IF hasId THEN nextId + 1 ELSE Absent, text)
         IN /\ nextId' = IF hasId THEN nextId + 1 ELSE nextId
            /\ response' = [response EXCEPT ![p] =
                              [rid |-> IF hasId THEN nextId + 1 ELSE Absent, text |-> text]]
            /\ IF r.ok
               THEN /\ recording_id' = [recording_id EXCEPT ![p] = r.rid]
                    /\ variables' = [variables EXCEPT ![p] = r.vars]
                    /\ pc' = [pc EXCEPT ![p] = "register"]
                    /\ UNCHANGED result
               ELSE /\ result' = [result EXCEPT ![p] = Raise(r.e)]
                    /\ pc' = [pc EXCEPT ![p] = "done"]
                    /\ UNCHANGED <<recording_id, variables>>
    /\ events' = Append1(events, p, "start")
    /\ wire' = NoWire
    /\ recording_ids' = [recording_ids EXCEPT ![test_id[p]] = response'[p].rid]
    /\ UNCHANGED <<mode, runner, send, calls, stopCount, lastStart, lastRestorer>>
    /\ UNCHANGED <<accepts, test_id, original_transport_func, test_output, pending, invs, stopReq>>

\* lines 85-106: the proxy answers; it issues session nextId + 1 or omits the header
Start(p) ==
    /\ UNCHANGED environ
    /\ pc[p] = "start"
    /\ \E hasId \in BOOLEAN, text \in (IF is_live THEN {""} ELSE StartBodies) :
         LET r == StartResponse(is_live, IF hasId THEN nextId + 1 ELSE Absent, text)
         IN /\ nextId' = IF hasId THEN nextId + 1 ELSE nextId
            /\ response' = [response EXCEPT ![p] =
                              [rid |-> IF hasId THEN nextId + 1 ELSE Absent, text |-> text]]
            /\ IF r.ok
               THEN /\ recording_id' = [recording_id EXCEPT ![p] = r.rid]
                    /\ variables' = [variables EXCEPT ![p] = r.vars]
                    /\ pc' = [pc EXCEPT ![p] = "register"]
                    /\ UNCHANGED result
               ELSE /\ result' = [result EXCEPT ![p] = Raise(r.e)]
                    /\ pc' = [pc EXCEPT ![p] = "done"]
                    /\ UNCHANGED <<recording_id, variables>>
    /\ events' = Append1(events, p, "start")
    /\ wire' = NoWire
    /\ UNCHANGED <<mode, runner, send, recording_ids, calls, stopCount, lastStart, lastRestorer>>
    /\ UNCHANGED <<accepts, test_id, original_transport_func, test_output, pending, invs, stopReq>>

\* lines 109-110: register the session and return
Register(p) ==
    /\ UNCHANGED environ
    /\ pc[p] = "register"
    /\ recording_ids' = RegistryAfterStart(recording_ids, test_id[p], recording_id[p])
    /\ lastStart' = [lastStart EXCEPT ![test_id[p]] = recording_id[p]]
    /\ events' = Append1(events, p, "register")
    /\ pc' = [pc EXCEPT ![p] = "save"]
    /\ wire' = NoWire
    /\ UNCHANGED <<mode, runner, send, nextId, calls, stopCount, lastRestorer>>
    /\ UNCHANGED <<response, accepts, test_id, recording_id, variables, original_transport_func,
                   test_output, pending, result, invs, stopReq>>

\* line 178
Save(p) ==
    /\ UNCHANGED environ
    /\ pc[p] = "save"
    /\ original_transport_func' = [original_transport_func EXCEPT ![p] = send]
    /\ pc' = [pc EXCEPT ![p] = "install"]
    /\ wire' = NoWire
    /\ UNCHANGED globals
    /\ UNCHANGED <<response, accepts, test_id, recording_id, variables, test_output, pending,
                   result, invs, events, stopReq>>

\* lines 184-188
Install(p) ==
    /\ UNCHANGED environ
    /\ pc[p] = "install"
    /\ send' = combined_call(recording_id[p], original_transport_func[p])
    /\ test_output' = [test_output EXCEPT ![p] = "None"]
    /\ events' = Append1(events, p, "install")
    /\ pc' = [pc EXCEPT ![p] = "body1"]
    /\ wire' = NoWire
    /\ UNCHANGED <<mode, runner, recording_ids, nextId, calls, stopCount, lastStart, lastRestorer>>
    /\ UNCHANGED <<response, accepts, test_id, recording_id, variables, original_transport_func,
                   pending, result, invs, stopReq>>

\* a request the running test body hands to RequestsTransport.send
Send(p) ==
    /\ UNCHANGED environ
    /\ \/ pc[p] = "body1" /\ accepts[p]
       \/ pc[p] \in {"body2", "pbody"}
    /\ \E request \in Outbound(recording_id[p], is_live) :
         LET sent == CallSend(send, request, is_live)
         IN wire' = [url |-> sent.url, upstream |-> sent.upstream, id |-> sent.id,
                     mode |-> sent.mode, session |-> recording_id[p], sender |-> p,
                     orig |-> request, hooks |-> Len(send)]
    /\ UNCHANGED <<mode, runner, send, recording_ids, nextId, calls, stopCount, lastStart, lastRestorer>>
    /\ UNCHANGED locals

\* lines 189-196: the first try statement
First(p) ==
    /\ UNCHANGED environ
    /\ pc[p] = "body1"
    /\ \E out \in InvokeWithVariables(accepts[p]) :
         /\ invs' = Append1(invs, p, [vars |-> TRUE, out |-> out])
         /\ IF out.t = "ret"
            THEN /\ test_output' = [test_output EXCEPT ![p] = out.v]
                 /\ pc' = [pc EXCEPT ![p] = "body2"]
                 /\ UNCHANGED result
            ELSE IF out.e.kind = "TypeError"
            THEN /\ pc' = [pc EXCEPT ![p] = "body2"]
                 /\ UNCHANGED <<test_output, result>>
            ELSE /\ result' = [result EXCEPT ![p] = out]
                 /\ pc' = [pc EXCEPT ![p] = "done"]
                 /\ UNCHANGED test_output
    /\ events' = Append1(events, p, "invoke")
    /\ wire' = NoWire
    /\ UNCHANGED globals
    /\ UNCHANGED <<response, accepts, test_id, recording_id, variables, original_transport_func,
                   pending, stopReq>>

\* lines 197-202: the second try statement up to its finally clause
Second(p) ==
    /\ UNCHANGED environ
    /\ pc[p] = "body2"
    /\ \E out \in InvokeWithout(2) :
         /\ invs' = Append1(invs, p, [vars |-> FALSE, out |-> out])
         /\ IF out.t = "ret"
            THEN /\ test_output' = [test_output EXCEPT ![p] = out.v]
                 /\ UNCHANGED pending
            ELSE IF out.e.kind = "ResourceNotFoundError"
            THEN /\ pending' = [pending EXCEPT ![p] = Raise(Rewrap(out.e))]
                 /\ UNCHANGED test_output
            ELSE /\ pending' = [pending EXCEPT ![p] = out]
                 /\ UNCHANGED test_output
    /\ events' = Append1(events, p, "invoke")
    /\ pc' = [pc EXCEPT ![p] = "restore"]
    /\ wire' = NoWire
    /\ UNCHANGED globals
    /\ UNCHANGED <<response, accepts, test_id, recording_id, variables, original_transport_func,
                   result, stopReq>>

\* line 204
Restore(p) ==
    /\ UNCHANGED environ
    /\ pc[p] = "restore"
    /\ send' = RestoredSend(original_transport_func[p])
    /\ lastRestorer' = p
    /\ events' = Append1(events, p, "restore")
    /\ pc' = [pc EXCEPT ![p] = "stop"]
    /\ wire' = NoWire
    /\ UNCHANGED <<mode, runner, recording_ids, nextId, calls, stopCount, lastStart>>
    /\ UNCHANGED <<response, accepts, test_id, recording_id, variables, original_transport_func,
                   test_output, pending, result, invs, stopReq>>

\* lines 205-207: stop_record_or_playback, then the pending raise or the return
Stop(p) ==
    /\ UNCHANGED environ
    /\ pc[p] = "stop"
    /\ stopReq' = [stopReq EXCEPT ![p] =
                      StopRequest(is_live, test_id[p], recording_id[p], test_output[p])]
    /\ stopCount' = [stopCount EXCEPT ![stopReq'[p].id] = @ + 1]
    /\ \E ok \in BOOLEAN :
         result' = [result EXCEPT ![p] =
                      IF ~ok THEN Raise(Exc("ConnectionError", "stop", "post", "None"))
                      ELSE IF pending[p] # NoOutcome THEN pending[p]
                      ELSE Ret(test_output[p])]
    /\ events' = Append1(events, p, "stop")
    /\ pc' = [pc EXCEPT ![p] = "done"]
    /\ wire' = NoWire
    /\ UNCHANGED <<mode, runner, send, recording_ids, nextId, calls, lastStart, lastRestorer>>
    /\ UNCHANGED <<response, accepts, test_id, recording_id, variables, original_transport_func,
                   test_output, pending, invs>>

\* the frame of record_wrap is gone; the thread is ready for its next test
Return(p) ==
    /\ UNCHANGED environ
    /\ pc[p] = "done"
    /\ pc' = [pc EXCEPT ![p] = "idle"]
    /\ accepts' = [accepts EXCEPT ![p] = FALSE]
    /\ test_id' = [test_id EXCEPT ![p] = "None"]
    /\ recording_id' = [recording_id EXCEPT ![p] = Absent]
    /\ variables' = [variables EXCEPT ![p] = EmptyVars]
    /\ original_transport_func' = [original_transport_func EXCEPT ![p] = Original]
    /\ test_output' = [test_output EXCEPT ![p] = "None"]
    /\ pending' = [pending EXCEPT ![p] = NoOutcome]
    /\ result' = [result EXCEPT ![p] = NoOutcome]
    /\ invs' = [invs EXCEPT ![p] = << >>]
    /\ events' = [events EXCEPT ![p] = << >>]
    /\ stopReq' = [stopReq EXCEPT ![p] = NoRequest]
    /\ response' = [response EXCEPT ![p] = NoResponse]
    /\ wire' = NoWire
    /\ UNCHANGED globals

Step(p) ==
    \/ Begin(p)
    \/ PassThrough(p)
    \/ StartGitFails(p)
    \/ StartNetworkFails(p)
    \/ Start(p)
    \/ Register(p)
    \/ Save(p)
    \/ Install(p)
    \/ Send(p)
    \/ First(p)
    \/ Second(p)
    \/ Restore(p)
    \/ Stop(p)
    \/ Return(p)

Next == \E p \in Procs : Step(p)

EnvironUnused == setting_value = << >> /\ os_name = "posix" /\ returned = NotCalled
Init == InitCommon /\ runner = "serial" /\ EnvironUnused
ThreadInit == InitCommon /\ runner = "threads" /\ EnvironUnused

IdInit ==
    /\ InitCommon /\ mode = "playback" /\ runner = "serial"
    /\ os_name \in {"posix", "nt"}
    /\ setting_value \in {v \in Settings : os_name = "nt" => Rootless(v)}
    /\ returned = NotCalled
IdNext == GetTestId
\* get_test_id() on every bounded value of PYTEST_CURRENT_TEST
IdSpec == IdInit /\ [][IdNext]_vars

\* tests run one after the other
Spec == Init /\ [][Next]_vars
\* worker threads interleave statement by statement
ThreadSpec == ThreadInit /\ [][Next]_vars

TypeOK ==
    /\ mode \in {"record", "live", "playback"}
    /\ nextId \in 0..MaxCalls
    /\ calls \in 0..MaxCalls
    /\ \A p \in Procs : pc[p] \in {"idle", "pbody", "start", "register", "save", "install",
                                      "body1", "body2", "restore", "stop", "done"}

\* ------------------------------------------------------------- claims ----
Has(seq, x) == \E i \in DOMAIN seq : seq[i] = x
Count(seq, x) == Cardinality({i \in DOMAIN seq : seq[i] = x})
Intercepted(p) == pc[p] = "done" /\ Has(events[p], "install")
RaisedNotFoundWithMessage(o) ==
    /\ o.t = "exc"
    /\ o.e.kind = "ResourceNotFoundError"
    /\ "Message" \in DOMAIN Deserialize(o.e.response)

\* C1: when a decorated call that installed the send hook has finished (tests
\* run one at a time), RequestsTransport.send is again the value it had
\* immediately before the hook was installed.
C1_Restoration ==
    \A p \in Procs : Intercepted(p) => send = original_transport_func[p]

\* C2: every decorated call that started a session and installed the hook has
\* called stop_record_or_playback by the time it finishes, on every exit path.
C2_SessionReleased ==
    \A p \in Procs : Intercepted(p) => Has(events[p], "stop")

\* C3: outside pass-through mode the test body is first invoked with the
\* variables; it is invoked again, without them, only if that first invocation
\* raised a TypeError; a body that returns normally is invoked exactly once.
C3_VariablesRetry ==
    \A p \in Procs :
       (~is_live_and_not_recording /\ invs[p] # << >>) =>
          /\ invs[p][1].vars
          /\ Len(invs[p]) <= 2
          /\ Len(invs[p]) = 2 =>
                /\ ~invs[p][2].vars
                /\ invs[p][1].out.t = "exc"
                /\ invs[p][1].out.e.kind = "TypeError"
          /\ invs[p][1].out.t = "ret" => Len(invs[p]) = 1

\* C4: if any invocation of the test body in an intercepted call raised a
\* ResourceNotFoundError whose response body decodes to a mapping with field
\* Message = m, the decorated call raises a new ResourceNotFoundError with
\* message m and the original response.
C4_NotFoundRewrapped ==
    \A p \in Procs :
       (pc[p] = "done" /\ ~is_live_and_not_recording) =>
          \A i \in DOMAIN invs[p] :
             RaisedNotFoundWithMessage(invs[p][i].out) =>
                result[p] = Raise(Exc("ResourceNotFoundError", "record_wrap",
                                      Deserialize(invs[p][i].out.e.response).Message,
                                      invs[p][i].out.e.response))

\* C5: an exception raised by the test body that is neither a
\* ResourceNotFoundError nor the signature mismatch caused by passing
\* `variables` is raised to the caller as that same exception and is not
\* followed by a further invocation of the test body.
C5_ExceptionPropagates ==
    \A p \in Procs :
       \A i \in DOMAIN invs[p] :
          (/\ invs[p][i].out.t = "exc"
           /\ invs[p][i].out.e.kind # "ResourceNotFoundError"
           /\ invs[p][i].out.e # TypeSigErr) =>
             /\ i = Len(invs[p])
             /\ pc[p] = "done" => result[p] = invs[p][i].out

\* C6: with two concurrent decorated tests the install/restore windows
\* overlap: in the interleaving "p installs, q saves and installs, p restores,
\* q restores" the hook of p is what RequestsTransport.send holds after both
\* tests have finished, so send is not the send operation p started from.
Clobbered(p, q) ==
    /\ p # q
    /\ pc[p] = "done" /\ pc[q] = "done"
    /\ Has(events[p], "restore") /\ Has(events[q], "restore")
    /\ original_transport_func[q] =
          combined_call(recording_id[p], original_transport_func[p])
    /\ lastRestorer = q
C6_ConcurrentClobbering ==
    \A p, q \in Procs :
       Clobbered(p, q) =>
          /\ send = combined_call(recording_id[p], original_transport_func[p])
          /\ send # original_transport_func[p]
C6_Witness ==
    \E p, q \in Procs :
       /\ Clobbered(p, q)
       /\ result[p].t = "ret" /\ result[q].t = "ret"
       /\ original_transport_func[p] = Original
       /\ send # Original

\* C7: with tests run one at a time, every request a test body sends through
\* RequestsTransport.send while its session is open reaches the original send
\* with x-recording-id equal to that test's own session identifier and
\* x-recording-mode "record" when live and "playback" otherwise.
C7_SessionTagging ==
    (wire # NoWire /\ wire.session # Absent) =>
       /\ wire.id = wire.session
       /\ wire.mode = IF is_live THEN "record" ELSE "playback"

\* C8: in pass-through mode a decorated call issues no start or stop request,
\* never assigns RequestsTransport.send, never writes the registry, invokes
\* the test body exactly once and finishes with the body's outcome.
C8_PassThrough ==
    is_live_and_not_recording =>
       /\ send = Original
       /\ nextId = 0
       /\ \A t \in TestIds : recording_ids[t] = Absent
       /\ \A i \in DOMAIN stopCount : stopCount[i] = 0
       /\ \A p \in Procs :
             /\ stopReq[p] = NoRequest
             /\ pc[p] = "done" =>
                   /\ events[p] = <<"invoke">>
                   /\ Len(invs[p]) = 1
                   /\ ~invs[p][1].vars
                   /\ result[p] = invs[p][1].out
C8_Witness ==
    /\ is_live_and_not_recording
    /\ \E p \in Procs : pc[p] = "done" /\ result[p] = Ret("o2")

\* C9: in record mode a decorated call that returns normally sent exactly one
\* request to /record/stop, with x-recording-save: true and the returned test
\* output as its body; in playback mode the stop request goes to
\* /playback/stop with only the x-recording-file and x-recording-id headers
\* and no body.
C9_StopPayload ==
    \A p \in Procs :
       /\ (mode = "record" /\ pc[p] = "done" /\ result[p].t = "ret") =>
             /\ Count(events[p], "stop") = 1
             /\ stopReq[p] = [url |-> RECORDING_STOP_URL, file |-> test_id[p],
                               id |-> recording_id[p], save |-> "true",
                               ctype |-> "application/json", hasBody |-> TRUE,
                               body |-> result[p].v]
       /\ (mode = "playback" /\ Has(events[p], "stop")) =>
             stopReq[p] = [url |-> PLAYBACK_STOP_URL, file |-> test_id[p],
                           id |-> recording_id[p], save |-> "None",
                           ctype |-> "None", hasBody |-> FALSE, body |-> "None"]
C9_Witness ==
    \E p \in Procs :
       /\ mode = "record" /\ pc[p] = "done"
       /\ result[p] = Ret("o2")
       /\ invs[p][1].out = Ret("o1")
       /\ stopReq[p].body = "o2"

\* C10: for every test identifier t the registry holds the session identifier
\* of the most recent successful start_record_or_playback(t), or nothing if
\* none succeeded, and stop_record_or_playback leaves the registry unchanged.
C10_RegistryContent ==
    /\ [](\A t \in TestIds : recording_ids[t] = lastStart[t])
    /\ [][(\E p \in Procs : pc[p] = "stop" /\ pc'[p] = "done")
            => recording_ids' = recording_ids]_vars
C10_Witness ==
    \E t \in TestIds :
       /\ recording_ids[t] = 2
       /\ stopCount[1] = 1
       /\ \E u \in TestIds : recording_ids[u] = Absent

Answered(p) == response[p] # NoResponse
StartFailedWith(p, e) ==
    /\ pc[p] = "done"
    /\ result[p] = Raise(e)
    /\ recording_id[p] = Absent
    /\ ~Has(events[p], "register")

\* C11: in playback mode a start whose proxy response lacks the
\* x-recording-id header fails with "No recording file found", whatever the
\* response body is, and yields no session identifier.
C11_MissingRecording ==
    \A p \in Procs :
       (mode = "playback" /\ Answered(p) /\ response[p].rid = Absent) =>
          StartFailedWith(p, Exc("ValueError", "start", "No recording file found", "None"))
C11_Witness ==
    \E p \in Procs :
       /\ mode = "playback"
       /\ response[p] = [rid |-> Absent, text |-> "oops"]
       /\ pc[p] = "done"

\* C12: in playback mode a start whose response has the x-recording-id header
\* fails with the malformed-variables error when the body is non-empty and
\* not valid JSON, returns the empty mapping when the body is empty, and
\* returns the decoded mapping when the body is valid JSON.
C12_MalformedVariables ==
    \A p \in Procs :
       (mode = "playback" /\ Answered(p) /\ response[p].rid # Absent) =>
          /\ response[p].text = "oops" =>
                StartFailedWith(p, Exc("ValueError", "start",
                   "The response body returned from starting playback did not contain valid JSON",
                   "None"))
          /\ response[p].text = "" =>
                /\ recording_id[p] = response[p].rid
                /\ variables[p] = {}
                /\ result[p].e.origin # "start"
          /\ response[p].text = "{\"k\": \"v\"}" =>
                /\ recording_id[p] = response[p].rid
                /\ variables[p] = {<<"k", "v">>}
                /\ result[p].e.origin # "start"
C12_Witness ==
    \E p \in Procs :
       /\ mode = "playback"
       /\ response[p] = [rid |-> 2, text |-> "oops"]
       /\ pc[p] = "done"
       /\ recording_ids = [t \in TestIds |-> IF t = "t1" THEN 1 ELSE Absent]

Delivered == [url |-> wire.url, upstream |-> wire.upstream, id |-> wire.id, mode |-> wire.mode]
Transformed == wire # NoWire /\ wire.hooks >= 1
ProxyPrefix == <<"https", "://", "localhost:5001">>
Rest(url) == SubSeq(url, 4, Len(url))
OriginalDestination == <<wire.orig.url[1], "://", wire.orig.url[3]>>
RECURSIVE WithoutEmptyDelimiters(_)
WithoutEmptyDelimiters(rest) ==
    IF rest = << >> THEN << >>
    ELSE IF Head(rest) \in {"?", "#"} /\ (Len(rest) = 1 \/ rest[2] = "#")
         THEN WithoutEmptyDelimiters(Tail(rest))
         ELSE <<Head(rest)>> \o WithoutEmptyDelimiters(Tail(rest))
UpstreamKept ==
    /\ wire.orig.upstream = NoUpstream => wire.upstream = OriginalDestination
    /\ wire.orig.upstream # NoUpstream => wire.upstream = wire.orig.upstream
Idempotent ==
    \A k \in 1..MaxCalls :
       /\ transform_request(Delivered, k, is_live).url = wire.url
       /\ transform_request(Delivered, k, is_live).upstream = wire.upstream

Called == returned # NotCalled
Contains(str, x) == \E i \in DOMAIN str : str[i] = x
HasDoubleColon(str) == \E i \in 1..(Len(str) - 1) : str[i] = ":" /\ str[i + 1] = ":"
HasAdjacentSeparators(str) == \E i \in 1..(Len(str) - 1) : str[i] = "/" /\ str[i + 1] = "/"
OnlyColons(comp) == comp # << >> /\ \A i \in DOMAIN comp : comp[i] = ":"
\* the value names a path without a root, written with the separators of
\* its platform, none of whose components consists of colons only
PlainRelative(value, os) ==
    LET path == Before(value, " ")
        comps == Split(ReplaceChar(path, "\\", "/"), "/")
    IN /\ path[1] \notin {"/", "\\"}
       /\ os = "posix" => ~Contains(path, "\\")
       /\ \A i \in DOMAIN comps : ~OnlyColons(comps[i])

\* C14 as stated: for every value of PYTEST_CURRENT_TEST, get_test_id returns
\* a string with no "::", no backslash and no two adjacent "/".
C14_Normalised ==
    Called =>
       /\ ~HasDoubleColon(returned)
       /\ ~Contains(returned, "\\")
       /\ ~HasAdjacentSeparators(returned)

\* C14 amended: the result never contains "::" or a backslash; it has no two
\* adjacent "/" when the value names a path without a root or drive, written
\* with the separators of its platform, none of whose components consists of
\* colons only.
C14_NormalisedRelative ==
    Called =>
       /\ ~HasDoubleColon(returned)
       /\ ~Contains(returned, "\\")
       /\ PlainRelative(setting_value, os_name) => ~HasAdjacentSeparators(returned)
C14_Witness ==
    /\ os_name = "nt"
    /\ setting_value = <<"a", "\\", "/", "test", ":", ":", "test", " ", "a">>
    /\ PlainRelative(setting_value, os_name)
    /\ returned = <<"a", "/", "test", "test", "/", "recordings">>

Rank(ev) ==
    CASE ev = "start" -> 1 [] ev = "register" -> 2 [] ev = "install" -> 3
      [] ev = "invoke" -> 4 [] ev = "restore" -> 5 [] ev = "stop" -> 6
InProtocolOrder(evs) ==
    /\ \A i, j \in DOMAIN evs :
          i < j => /\ Rank(evs[i]) <= Rank(evs[j])
                   /\ Rank(evs[i]) = Rank(evs[j]) => evs[i] = "invoke"
    /\ Has(evs, "install") => Has(evs, "register")
    /\ Has(evs, "register") => Has(evs, "start")
    /\ Has(evs, "invoke") => Has(evs, "install")
    /\ Has(evs, "restore") => Has(evs, "invoke")
    /\ Has(evs, "stop") => Has(evs, "restore")

\* C15: outside pass-through mode the events of a decorated call occur in the
\* order start, install, invoke, restore, stop: the hook is installed only
\* after start succeeded, the test body runs only while the call's hook is
\* the installed send, and the hook is restored before the stop request is
\* issued, so that a failed stop request leaves the saved send in place.
C15_ProtocolOrder ==
    ~is_live_and_not_recording =>
       \A p \in Procs :
          /\ InProtocolOrder(events[p])
          /\ Has(events[p], "install") => recording_id[p] # Absent
          /\ pc[p] \in {"body1", "body2"} =>
                /\ send # Original
                /\ Head(send) = recording_id[p]
                /\ Tail(send) = original_transport_func[p]
          /\ Has(events[p], "stop") => send = original_transport_func[p]
C15_Witness ==
    \E p \in Procs :
       /\ pc[p] = "done"
       /\ events[p] = <<"start", "register", "install", "invoke", "invoke", "restore", "stop">>
       /\ result[p] = Raise(Exc("ConnectionError", "stop", "post", "None"))
       /\ send = original_transport_func[p]

Registered(p) == Has(events[p], "register")
OwnEntry(p) == recording_ids[test_id[p]] = recording_id[p]
Registers(q) == pc[q] = "register" /\ pc'[q] = "save"

\* C16: a start for test identifier t changes at most the registry entry of t;
\* so the entry of a running test equals its own session identifier from its
\* start on, and only a start by another test with the same identifier ends
\* that: with distinct identifiers every interleaving keeps it.
C16_RegistryIsolation ==
    [][/\ \A t \in TestIds :
            recording_ids'[t] # recording_ids[t] =>
               \E q \in Procs : Registers(q) /\ test_id[q] = t
                                   /\ recording_ids'[t] = recording_id[q]
       /\ \A p \in Procs :
            (Registers(p) \/ (Registered(p) /\ OwnEntry(p) /\ pc'[p] # "idle")) =>
               \/ OwnEntry(p)'
               \/ \E q \in Procs \ {p} : Registers(q) /\ test_id[q] = test_id[p]]_vars
C16_Witness ==
    /\ runner = "threads"
    /\ test_id[1] # test_id[2]
    /\ \A p \in Procs : pc[p] = "stop" /\ Registered(p) /\ OwnEntry(p)
    /\ recording_ids[test_id[1]] # recording_ids[test_id[2]]

StartFailed(p) == pc[p] = "done" /\ result[p].t = "exc" /\ result[p].e.origin = "start"

\* C17: when start_record_or_playback fails, its error is the outcome of the
\* decorated call, and in that call the registry is not written,
\* RequestsTransport.send is not assigned, the test body is not invoked and no
\* stop request is sent.
C17_FailedStart ==
    /\ \A p \in Procs :
          StartFailed(p) =>
             /\ events[p] \in {<< >>, <<"start">>}
             /\ invs[p] = << >>
             /\ stopReq[p] = NoRequest
             /\ recording_id[p] = Absent
             /\ \A t \in TestIds : recording_ids[t] = lastStart[t]
    /\ \A p \in Procs :
          (pc[p] = "done" /\ Answered(p) /\ ~StartResponse(is_live, response[p].rid, response[p].text).ok)
             => StartFailed(p)
C17_Witness ==
    \E p \in Procs :
       /\ StartFailed(p)
       /\ result[p].e.kind = "ConnectionError"
       /\ send = <<1>>
       /\ recording_ids["t1"] = 1

\* C18: every stop request carries the test identifier and the session
\* identifier that the successful start of the same decorated call produced,
\* and no session identifier is the subject of more than one stop request.
C18_StartStopPairing ==
    /\ \A p \in Procs :
          stopReq[p] # NoRequest =>
             /\ Registered(p)
             /\ stopReq[p].file = test_id[p]
             /\ stopReq[p].id = response[p].rid
             /\ stopReq[p].id # Absent
    /\ \A i \in DOMAIN stopCount : stopCount[i] <= 1
C18_Witness ==
    /\ runner = "threads"
    /\ test_id[1] = test_id[2]
    /\ \A p \in Procs : pc[p] = "done" /\ stopReq[p] # NoRequest
    /\ \A i \in DOMAIN stopCount : stopCount[i] = 1
====
